---- MODULE Spec2Model ----
(***************************************************************************)
(* Model of the task manager (src/task_manager) and of the task repository *)
(* (src/app).                                                              *)
(*                                                                         *)
(* Text is a sequence of one-character strings ("2024-01-05" is            *)
(* <<"2","0","2","4","-","0","1","-","0","5">>), so that parsing and       *)
(* formatting are computed and not assumed.  An Optional value is a        *)
(* sequence of length at most one: None is <<>>, a present value x is      *)
(* <<x>>.  A timestamp is the reading of a clock that counts whole         *)
(* seconds (TIMESTAMP_FORMAT has a resolution of one second).              *)
(***************************************************************************)
EXTENDS Integers, Sequences, FiniteSets, TLC

\* ------------------------------------------------------------------ bounds
MaxTasks == 3        \* tasks held by the durable store at one time
MaxId == 3           \* largest id add_task may assign
MaxFieldTasks == 1   \* tasks held at one time where every field varies
MaxListed == 3       \* size of the collections given to list_tasks
MaxSorted == 3       \* size of the stored collections that are sorted
MaxClock == 3        \* largest reading of the clock, in seconds
MaxRepoTasks == 2    \* tasks held by the repository at one time
MaxRepoId == 3       \* largest id create_task may assign
MaxSaved == 3        \* size of the collections given to save_tasks

\* ---------------------------------------------------------------- Optional
None == <<>>
Some(x) == <<x>>
IsNone(o) == o = <<>>
Get(o) == o[1]

\* -------------------------------------------------------------------- text
Digits == <<"0", "1", "2", "3", "4", "5", "6", "7", "8", "9">>
DigitChars == {Digits[i] : i \in 1..10}
IsDigit(c) == c \in DigitChars
DigitVal(c) == (CHOOSE i \in 1..10 : Digits[i] = c) - 1

\* code point order of the characters that occur in the model
CharOrder == <<" ", "-", "/", "0", "1", "2", "3", "4", "5", "6", "7", "8", "9",
               "a", "b", "d">>
CharCode(c) == CHOOSE i \in 1..Len(CharOrder) : CharOrder[i] = c

\* Python's < on str: lexicographic by code point, a proper prefix is smaller
RECURSIVE StrLess(_, _)
StrLess(s, t) ==
    IF t = <<>> THEN FALSE
    ELSE IF s = <<>> THEN TRUE
    ELSE IF Head(s) = Head(t) THEN StrLess(Tail(s), Tail(t))
    ELSE CharCode(Head(s)) < CharCode(Head(t))

\* str.strip(): drop leading and trailing blanks
RECURSIVE LStrip(_)
LStrip(s) == IF s # <<>> /\ Head(s) = " " THEN LStrip(Tail(s)) ELSE s
RECURSIVE RStrip(_)
RStrip(s) ==
    IF s # <<>> /\ s[Len(s)] = " " THEN RStrip(SubSeq(s, 1, Len(s) - 1)) ELSE s
Strip(s) == RStrip(LStrip(s))

\* the fields of s between the occurrences of "-"
RECURSIVE SplitDash(_)
SplitDash(s) ==
    IF \A i \in 1..Len(s) : s[i] # "-" THEN <<s>>
    ELSE LET k == CHOOSE i \in 1..Len(s) :
                      s[i] = "-" /\ \A j \in 1..(i - 1) : s[j] # "-"
         IN <<SubSeq(s, 1, k - 1)>> \o SplitDash(SubSeq(s, k + 1, Len(s)))

RECURSIVE DecimalValue(_)
DecimalValue(s) ==
    IF s = <<>> THEN 0
    ELSE IF s[Len(s)] = " " THEN DecimalValue(SubSeq(s, 1, Len(s) - 1))
    ELSE 10 * DecimalValue(SubSeq(s, 1, Len(s) - 1)) + DigitVal(s[Len(s)])

\* n written with at least `width` digits, padded with zeros (format %0<w>d)
RECURSIVE ZeroPad(_, _)
ZeroPad(n, width) ==
    IF width <= 1 /\ n < 10 THEN <<Digits[n + 1]>>
    ELSE ZeroPad(n \div 10, width - 1) \o <<Digits[(n % 10) + 1]>>

\* ------------------------------------------------- datetime.strptime, date
\* _strptime regex of %Y: \d\d\d\d
MatchesYear(f) == Len(f) = 4 /\ \A i \in 1..4 : IsDigit(f[i])
\* _strptime regex of %m: 1[0-2]|0[1-9]|[1-9]
MatchesMonth(f) ==
    \/ Len(f) = 2 /\ f[1] = "1" /\ f[2] \in {"0", "1", "2"}
    \/ Len(f) = 2 /\ f[1] = "0" /\ IsDigit(f[2]) /\ f[2] # "0"
    \/ Len(f) = 1 /\ IsDigit(f[1]) /\ f[1] # "0"
\* _strptime regex of %d: 3[0-1]|[1-2]\d|0[1-9]|[1-9]| [1-9]
MatchesDay(f) ==
    \/ Len(f) = 2 /\ f[1] = "3" /\ f[2] \in {"0", "1"}
    \/ Len(f) = 2 /\ f[1] \in {"1", "2"} /\ IsDigit(f[2])
    \/ Len(f) = 2 /\ f[1] \in {"0", " "} /\ IsDigit(f[2]) /\ f[2] # "0"
    \/ Len(f) = 1 /\ IsDigit(f[1]) /\ f[1] # "0"

IsLeap(y) == (y % 4 = 0) /\ ((y % 100 # 0) \/ (y % 400 = 0))
DaysInMonth(y, m) ==
    IF m = 2 THEN (IF IsLeap(y) THEN 29 ELSE 28)
    ELSE IF m \in {4, 6, 9, 11} THEN 30 ELSE 31

\* datetime.strptime(s, "%Y-%m-%d"): ok is FALSE where it raises ValueError
Strptime(s) ==
    LET f == SplitDash(s) IN
    IF Len(f) = 3 /\ MatchesYear(f[1]) /\ MatchesMonth(f[2]) /\ MatchesDay(f[3])
    THEN LET y == DecimalValue(f[1])
             m == DecimalValue(f[2])
             d == DecimalValue(f[3])
         IN [ok |-> y >= 1 /\ d <= DaysInMonth(y, m), y |-> y, m |-> m, d |-> d]
    ELSE [ok |-> FALSE, y |-> 0, m |-> 0, d |-> 0]

\* date.isoformat(): %04d-%02d-%02d
IsoFormat(y, m, d) ==
    ZeroPad(y, 4) \o <<"-">> \o ZeroPad(m, 2) \o <<"-">> \o ZeroPad(d, 2)


\* ------------------------------------------------------------ task_manager
TIMESTAMP_FORMAT == "%Y-%m-%dT%H:%M:%S"

VARIABLES
    fileKind,   \* TaskStorage.path: "absent", "valid" (a JSON list), "malformed"
    disk,       \* the JSON list held by the file when fileKind = "valid"
    clock,      \* the UTC clock, in whole seconds
    result,     \* outcome of the last TaskManager call
    _tasks,     \* TaskRepository._tasks: the tasks, in the order of the dict
    _next_id,   \* TaskRepository._next_id
    storage,    \* the JSON list in TaskRepository.storage_path, None if absent
    storage_path,  \* TaskRepository.storage_path is set
    returned,   \* outcome of the last TaskRepository call
    pc,         \* per caller: where its add_task call stands
    loaded,     \* per caller: the arguments and the list its call has loaded
    outcome     \* per caller: outcome of its last add_task call

mvars == <<fileKind, disk, clock, result>>
rvars == <<_tasks, _next_id, storage, storage_path, returned>>
cvars == <<pc, loaded, outcome>>
vars == <<mvars, rvars, cvars>>

\* current_timestamp(): the clock reading, formatted to the second
current_timestamp(now) == now

\* JSON values as json.dump writes them
JNull == [null |-> TRUE]
JStr(s) == [str |-> s]
JNum(n) == [num |-> n]
JBool(b) == [bool |-> b]
IsJNull(v) == "null" \in DOMAIN v

\* Task(id, title, description, due_date, priority): the dataclass and its
\* defaults; created_at and updated_at each come from their own call of
\* current_timestamp()
Task(id, title, description, due_date, priority, now1, now2) ==
    [id |-> id, title |-> title, description |-> description,
     due_date |-> due_date, priority |-> priority, completed |-> FALSE,
     created_at |-> current_timestamp(now1),
     updated_at |-> current_timestamp(now2)]

\* Task.to_dict followed by the JSON encoding of each value
to_dict(task) ==
    [id |-> JNum(task.id),
     title |-> JStr(task.title),
     description |-> JStr(task.description),
     due_date |-> IF IsNone(task.due_date) THEN JNull
                  ELSE JStr(Get(task.due_date)),
     priority |-> JStr(task.priority),
     completed |-> JBool(task.completed),
     created_at |-> JStr(task.created_at),
     updated_at |-> JStr(task.updated_at)]

\* {**defaults, **data}[key]: the stored value, the default where it is missing
Merged(data, key, default) == IF key \in DOMAIN data THEN data[key] ELSE default

\* a reader that takes a null due date for an empty text
from_dict_null_as_text(data, now) ==
    [id |-> data.id.num,
     title |-> data.title.str,
     description |-> Merged(data, "description", JStr(<<>>)).str,
     due_date |-> LET due == Merged(data, "due_date", JNull)
                  IN IF IsJNull(due) THEN Some(<<>>) ELSE Some(due.str),
     priority |-> Merged(data, "priority", JStr("normal")).str,
     completed |-> Merged(data, "completed", JBool(FALSE)).bool,
     created_at |-> Merged(data, "created_at", JStr(current_timestamp(now))).str,
     updated_at |-> Merged(data, "updated_at", JStr(current_timestamp(now))).str]

\* Task.from_dict: the stored keys override the defaults
from_dict(data, now) ==
    [id |-> data.id.num,
     title |-> data.title.str,
     description |-> Merged(data, "description", JStr(<<>>)).str,
     due_date |-> LET due == Merged(data, "due_date", JNull)
                  IN IF IsJNull(due) THEN None ELSE Some(due.str),
     priority |-> Merged(data, "priority", JStr("normal")).str,
     completed |-> Merged(data, "completed", JBool(FALSE)).bool,
     created_at |-> Merged(data, "created_at", JStr(current_timestamp(now))).str,
     updated_at |-> Merged(data, "updated_at", JStr(current_timestamp(now))).str]

\* TaskStorage.load_tasks, for a file that is absent or holds a JSON list
load_tasks ==
    IF fileKind = "absent" THEN <<>>
    ELSE [i \in 1..Len(disk) |-> from_dict(disk[i], clock)]

\* TaskStorage.save_tasks: the JSON list that replaces the file content
save_tasks(tasks) == [i \in 1..Len(tasks) |-> to_dict(tasks[i])]

PRIORITY_LEVELS == {"low", "normal", "high"}

\* a check that only asks for some priority text
_validate_priority_nonempty(priority) == priority # ""

\* TaskManager._validate_priority: FALSE where it raises ValueError
_validate_priority(priority) == priority \in PRIORITY_LEVELS

\* a check of the due date that keeps the text as it was given
_normalise_due_date_unformatted(due_date) ==
    IF IsNone(due_date) \/ Get(due_date) = <<>> THEN [ok |-> TRUE, value |-> None]
    ELSE [ok |-> Strptime(Get(due_date)).ok, value |-> due_date]

\* TaskManager._normalise_due_date: ok is FALSE where it raises ValueError
_normalise_due_date(due_date) ==
    IF IsNone(due_date) \/ Get(due_date) = <<>> THEN [ok |-> TRUE, value |-> None]
    ELSE LET parsed == Strptime(Get(due_date))
         IN IF parsed.ok
            THEN [ok |-> TRUE,
                  value |-> Some(IsoFormat(parsed.y, parsed.m, parsed.d))]
            ELSE [ok |-> FALSE, value |-> None]

IdsOf(tasks) == {tasks[i].id : i \in 1..Len(tasks)}
MaxOf(S) == CHOOSE m \in S : \A x \in S : x <= m

\* a counter taken from the length of the list instead of the largest id
next_id_by_count(tasks) == Len(tasks) + 1

\* the largest id itself where the list is not empty
next_id_without_increment(tasks) ==
    IF tasks = <<>> THEN 1 ELSE MaxOf(IdsOf(tasks))

\* max((task.id for task in tasks), default=0) + 1
next_id(tasks) == (IF tasks = <<>> THEN 0 ELSE MaxOf(IdsOf(tasks))) + 1

\* a search that ends on the last task instead of raising
_find_task_or_last(task_id, tasks) ==
    IF \E i \in 1..Len(tasks) : tasks[i].id = task_id
    THEN CHOOSE i \in 1..Len(tasks) :
             tasks[i].id = task_id /\ \A j \in 1..(i - 1) : tasks[j].id # task_id
    ELSE Len(tasks)

\* TaskManager._find_task: index of the first task with the id, 0 if it raises
_find_task(task_id, tasks) ==
    IF \E i \in 1..Len(tasks) : tasks[i].id = task_id
    THEN CHOOSE i \in 1..Len(tasks) :
             tasks[i].id = task_id /\ \A j \in 1..(i - 1) : tasks[j].id # task_id
    ELSE 0

\* an update that rebuilds the description from the argument, '' if omitted
apply_updates_description_reset(task, u, now) ==
    [id |-> task.id,
     title |-> IF IsNone(u.title) THEN task.title ELSE Get(u.title),
     description |-> IF IsNone(u.description) THEN <<>> ELSE Get(u.description),
     due_date |-> IF IsNone(u.due_date) THEN task.due_date ELSE u.due_date,
     priority |-> IF IsNone(u.priority) THEN task.priority ELSE Get(u.priority),
     completed |-> IF IsNone(u.completed) THEN task.completed
                   ELSE Get(u.completed),
     created_at |-> task.created_at,
     updated_at |-> current_timestamp(now)]

\* an update that leaves updated_at as it was
apply_updates_without_refresh(task, u, now) ==
    [id |-> task.id,
     title |-> IF IsNone(u.title) THEN task.title ELSE Get(u.title),
     description |-> IF IsNone(u.description) THEN task.description
                     ELSE Get(u.description),
     due_date |-> IF IsNone(u.due_date) THEN task.due_date ELSE u.due_date,
     priority |-> IF IsNone(u.priority) THEN task.priority ELSE Get(u.priority),
     completed |-> IF IsNone(u.completed) THEN task.completed
                   ELSE Get(u.completed),
     created_at |-> task.created_at,
     updated_at |-> task.updated_at]

\* Task.apply_updates: u holds the keyword arguments, None where omitted
apply_updates(task, u, now) ==
    [id |-> task.id,
     title |-> IF IsNone(u.title) THEN task.title ELSE Get(u.title),
     description |-> IF IsNone(u.description) THEN task.description
                     ELSE Get(u.description),
     due_date |-> IF IsNone(u.due_date) THEN task.due_date ELSE u.due_date,
     priority |-> IF IsNone(u.priority) THEN task.priority ELSE Get(u.priority),
     completed |-> IF IsNone(u.completed) THEN task.completed
                   ELSE Get(u.completed),
     created_at |-> task.created_at,
     updated_at |-> current_timestamp(now)]

\* list.pop(): drop the last element
RemoveLast(tasks, x) == SubSeq(tasks, 1, Len(tasks) - 1)

\* list.remove(x): drop the first element equal to x
RemoveFirst(tasks, x) ==
    LET k == CHOOSE i \in 1..Len(tasks) :
                 tasks[i] = x /\ \A j \in 1..(i - 1) : tasks[j] # x
    IN SubSeq(tasks, 1, k - 1) \o SubSeq(tasks, k + 1, Len(tasks))

\* the sort key of list_tasks: (completed, due_date or "9999-12-31", id)
SENTINEL_DUE == <<"9", "9", "9", "9", "-", "1", "2", "-", "3", "1">>
due_key(task) ==
    IF IsNone(task.due_date) \/ Get(task.due_date) = <<>> THEN SENTINEL_DUE
    ELSE Get(task.due_date)
key_less(a, b) ==
    IF a.completed # b.completed THEN b.completed
    ELSE IF due_key(a) # due_key(b) THEN StrLess(due_key(a), due_key(b))
    ELSE a.id < b.id

\* sorted(tasks, key=...): stable, an element goes after the equal ones
RECURSIVE InsertSorted(_, _)
InsertSorted(sortedSeq, x) ==
    IF sortedSeq = <<>> THEN <<x>>
    ELSE IF key_less(x, Head(sortedSeq)) THEN <<x>> \o sortedSeq
    ELSE <<Head(sortedSeq)>> \o InsertSorted(Tail(sortedSeq), x)
RECURSIVE sorted(_)
sorted(tasks) ==
    IF tasks = <<>> THEN <<>>
    ELSE InsertSorted(sorted(SubSeq(tasks, 1, Len(tasks) - 1)), tasks[Len(tasks)])

\* a filter with the two statuses exchanged
list_tasks_exchanged(tasks, status) ==
    LET kept == IF status = Some("pending")
                THEN SelectSeq(tasks, LAMBDA t : t.completed)
                ELSE IF status = Some("completed")
                THEN SelectSeq(tasks, LAMBDA t : ~t.completed)
                ELSE tasks
    IN sorted(kept)

\* TaskManager.list_tasks as a function of the loaded tasks
list_tasks(tasks, status) ==
    LET kept == IF status = Some("pending")
                THEN SelectSeq(tasks, LAMBDA t : ~t.completed)
                ELSE IF status = Some("completed")
                THEN SelectSeq(tasks, LAMBDA t : t.completed)
                ELSE tasks
    IN sorted(kept)

\* --------------------------------------------------------------------- app
\* app.models.Task; due_date is a datetime.date, written <<year, month, day>>
AppTask(id, title, description, completed, due_date) ==
    [id |-> id, title |-> title, description |-> description,
     completed |-> completed, due_date |-> due_date]

\* a writer that leaves the due date out
app_to_dict_without_due_date(task) ==
    [id |-> JNum(task.id),
     title |-> JStr(task.title),
     description |-> JStr(task.description),
     completed |-> JBool(task.completed),
     due_date |-> JNull]

\* app Task.to_dict: the date is written with date.isoformat()
app_to_dict(task) ==
    [id |-> JNum(task.id),
     title |-> JStr(task.title),
     description |-> JStr(task.description),
     completed |-> JBool(task.completed),
     due_date |-> IF IsNone(task.due_date) THEN JNull
                  ELSE LET d == Get(task.due_date)
                       IN JStr(IsoFormat(d[1], d[2], d[3]))]

\* date.fromisoformat on text that date.isoformat() has written
fromisoformat(text) ==
    <<DecimalValue(SubSeq(text, 1, 4)), DecimalValue(SubSeq(text, 6, 7)),
      DecimalValue(SubSeq(text, 9, 10))>>

\* app Task.from_dict; a missing, null or empty due_date gives None
app_from_dict(data) ==
    LET due == Merged(data, "due_date", JNull)
    IN AppTask(data.id.num,
               data.title.str,
               Merged(data, "description", JStr(<<>>)).str,
               Merged(data, "completed", JBool(FALSE)).bool,
               IF IsJNull(due) \/ due.str = <<>> THEN None
               ELSE Some(fromisoformat(due.str)))

\* self._tasks[key] = task on a dict kept as the sequence of its values
DictSet(tasks, task) ==
    IF \E i \in 1..Len(tasks) : tasks[i].id = task.id
    THEN [i \in 1..Len(tasks) |->
             IF tasks[i].id = task.id THEN task ELSE tasks[i]]
    ELSE Append(tasks, task)

\* {task.id: task for task in tasks}
RECURSIVE DictOf(_)
DictOf(tasks) ==
    IF tasks = <<>> THEN <<>>
    ELSE DictSet(DictOf(SubSeq(tasks, 1, Len(tasks) - 1)), tasks[Len(tasks)])

\* sorted(self._tasks.values(), key=lambda t: t.id)
RECURSIVE SortedById(_)
SortedById(tasks) ==
    IF tasks = <<>> THEN <<>>
    ELSE LET k == CHOOSE i \in 1..Len(tasks) :
                      /\ \A j \in 1..Len(tasks) : tasks[i].id <= tasks[j].id
                      /\ \A j \in 1..(i - 1) : tasks[j].id # tasks[i].id
         IN <<tasks[k]>> \o SortedById(SubSeq(tasks, 1, k - 1)
                                          \o SubSeq(tasks, k + 1, Len(tasks)))

\* TaskRepository._save_locked: the content of the file after the call
_save_locked(tasks, path, file) ==
    IF ~path THEN file
    ELSE LET ordered == SortedById(tasks)
         IN Some([i \in 1..Len(ordered) |-> app_to_dict(ordered[i])])

\* the three states of the due_date argument of TaskRepository.update_task
_UNSET == None
Given(due_date) == Some(due_date)

\* an update that takes due_date=None for an argument that was not supplied
update_fields_plain_optional(task, u) ==
    [id |-> task.id,
     title |-> IF IsNone(u.title) THEN task.title ELSE Strip(Get(u.title)),
     description |-> IF IsNone(u.description) THEN task.description
                     ELSE Strip(Get(u.description)),
     due_date |-> IF u.due_date = _UNSET \/ u.due_date = Given(None)
                  THEN task.due_date ELSE Get(u.due_date),
     completed |-> IF IsNone(u.completed) THEN task.completed
                   ELSE Get(u.completed)]

\* the assignments of TaskRepository.update_task to the task it found
update_fields(task, u) ==
    [id |-> task.id,
     title |-> IF IsNone(u.title) THEN task.title ELSE Strip(Get(u.title)),
     description |-> IF IsNone(u.description) THEN task.description
                     ELSE Strip(Get(u.description)),
     due_date |-> IF u.due_date = _UNSET THEN task.due_date ELSE Get(u.due_date),
     completed |-> IF IsNone(u.completed) THEN task.completed
                   ELSE Get(u.completed)]

\* dict.pop(task_id): the values without the one of that key
DictPop(tasks, task_id) == SelectSeq(tasks, LAMBDA t : t.id # task_id)

\* TaskRepository.list_tasks as a function of list(self._tasks.values())
TaskRepository_list_tasks(tasks, completed) ==
    IF IsNone(completed) THEN tasks
    ELSE SelectSeq(tasks, LAMBDA t : t.completed = Get(completed))

\* ------------------------------------------------------- outcome of a call
\* a return value (value: the returned tasks; id: the id the call was about,
\* 0 if none) or the exception raised (kind, and the id its message names)
Returned(id, value) == [kind |-> "ok", id |-> id, value |-> value]
Raised(kind, id) == [kind |-> kind, id |-> id, value |-> <<>>]

\* a load failure reported as an invalid argument
DecodeAsInvalidArgument == Raised("invalid_argument", 0)

\* json.load raises on malformed content: the call stops at its load
DecodeError == Raised("decode_error", 0)

\* ----------------------------------------------------------------- actions
\* TaskManager.add_task; a holds the keyword arguments, tick is the time that
\* passes between the two current_timestamp() calls of the Task constructor
AddTask(a, tick) ==
    IF fileKind = "malformed"
    THEN /\ result' = DecodeError
         /\ UNCHANGED <<fileKind, disk, clock>>
    ELSE LET tasks == load_tasks
              due == _normalise_due_date(a.due_date)
          IN IF ~due.ok \/ ~_validate_priority(a.priority)
             THEN /\ result' = Raised("invalid_argument", 0)
                  /\ UNCHANGED <<fileKind, disk, clock>>
             ELSE LET new_task == Task(next_id(tasks), a.title, a.description,
                                       due.value, a.priority, clock, clock + tick)
                  IN /\ fileKind' = "valid"
                     /\ disk' = save_tasks(Append(tasks, new_task))
                     /\ clock' = clock + tick
                     /\ result' = Returned(new_task.id, <<new_task>>)

\* TaskManager.list_tasks
ListTasks(status) ==
    IF fileKind = "malformed"
    THEN /\ result' = DecodeError
         /\ UNCHANGED <<fileKind, disk, clock>>
    ELSE /\ result' = Returned(0, list_tasks(load_tasks, status))
         /\ UNCHANGED <<fileKind, disk, clock>>

\* TaskManager.update_task; u holds the keyword arguments
UpdateTask(task_id, u) ==
    IF fileKind = "malformed"
    THEN /\ result' = DecodeError
         /\ UNCHANGED <<fileKind, disk, clock>>
    ELSE LET tasks == load_tasks
              k == _find_task(task_id, tasks)
              due == IF IsNone(u.due_date) THEN [ok |-> TRUE, value |-> None]
                     ELSE _normalise_due_date(u.due_date)
          IN IF k = 0
             THEN /\ result' = Raised("not_found", task_id)
                  /\ UNCHANGED <<fileKind, disk, clock>>
             ELSE IF \/ ~IsNone(u.priority) /\ ~_validate_priority(Get(u.priority))
                     \/ ~due.ok
             THEN /\ result' = Raised("invalid_argument", 0)
                  /\ UNCHANGED <<fileKind, disk, clock>>
             ELSE LET task == apply_updates(tasks[k],
                                  [u EXCEPT !.due_date = due.value], clock)
                  IN /\ fileKind' = "valid"
                     /\ disk' = save_tasks([tasks EXCEPT ![k] = task])
                     /\ result' = Returned(task_id, <<task>>)
                     /\ UNCHANGED clock

\* TaskManager.complete_task
CompleteTask(task_id, completed) ==
    UpdateTask(task_id,
               [title |-> None, description |-> None, due_date |-> None,
                priority |-> None, completed |-> Some(completed)])

\* TaskManager.delete_task
DeleteTask(task_id) ==
    IF fileKind = "malformed"
    THEN /\ result' = DecodeError
         /\ UNCHANGED <<fileKind, disk, clock>>
    ELSE LET tasks == load_tasks
              k == _find_task(task_id, tasks)
          IN IF k = 0
             THEN /\ result' = Raised("not_found", task_id)
                  /\ UNCHANGED <<fileKind, disk, clock>>
             ELSE /\ fileKind' = "valid"
                  /\ disk' = save_tasks(RemoveFirst(tasks, tasks[k]))
                  /\ result' = Returned(task_id, <<>>)
                  /\ UNCHANGED clock

\* TaskStorage.save_tasks called with a list of tasks
StorageSaveTasks(tasks) ==
    /\ fileKind' = "valid"
    /\ disk' = save_tasks(tasks)
    /\ result' = Returned(0, <<>>)
    /\ UNCHANGED clock

\* TaskStorage.load_tasks called, its return value in result
StorageLoadTasks ==
    /\ result' = IF fileKind = "malformed" THEN DecodeError
                 ELSE Returned(0, load_tasks)
    /\ UNCHANGED <<fileKind, disk, clock>>

\* the list as the store holds it at the time of the save
tasks_reloaded(p) == load_tasks

\* the list an add_task call works on: the one it loaded
tasks_of_call(p) == loaded[p].tasks

\* TaskManager.add_task of caller p up to the return of self._load()
AddLoad(p, a) ==
    /\ pc[p] = "idle"
    /\ IF fileKind = "malformed"
       THEN /\ outcome' = [outcome EXCEPT ![p] = DecodeError]
            /\ result' = DecodeError
            /\ UNCHANGED <<pc, loaded>>
       ELSE /\ pc' = [pc EXCEPT ![p] = "loaded"]
            /\ loaded' = [loaded EXCEPT ![p] = [args |-> a, tasks |-> load_tasks]]
            /\ UNCHANGED <<outcome, result>>
    /\ UNCHANGED <<fileKind, disk, clock>>

\* TaskManager.add_task of caller p from the validation to the return
AddSave(p) ==
    /\ pc[p] = "loaded"
    /\ pc' = [pc EXCEPT ![p] = "idle"]
    /\ UNCHANGED loaded
    /\ LET a == loaded[p].args
           tasks == tasks_of_call(p)
           due == _normalise_due_date(a.due_date)
       IN IF ~due.ok \/ ~_validate_priority(a.priority)
          THEN /\ outcome' = [outcome EXCEPT ![p] = Raised("invalid_argument", 0)]
               /\ result' = Raised("invalid_argument", 0)
               /\ UNCHANGED <<fileKind, disk, clock>>
          ELSE LET new_task == Task(next_id(tasks), a.title, a.description,
                                    due.value, a.priority, clock, clock)
               IN /\ fileKind' = "valid"
                  /\ disk' = save_tasks(Append(tasks, new_task))
                  /\ outcome' = [outcome EXCEPT
                                     ![p] = Returned(new_task.id, <<new_task>>)]
                  /\ result' = Returned(new_task.id, <<new_task>>)
                  /\ UNCHANGED clock

\* TaskRepository.list_tasks
RepositoryListTasks(completed) ==
    /\ returned' = Returned(0, TaskRepository_list_tasks(_tasks, completed))
    /\ UNCHANGED <<_tasks, _next_id, storage, storage_path>>

\* TaskRepository.create_task
RepositoryCreateTask(title, description, due_date) ==
    IF Strip(title) = <<>>
    THEN /\ returned' = Raised("invalid_argument", 0)
         /\ UNCHANGED <<_tasks, _next_id, storage, storage_path>>
    ELSE LET task == AppTask(_next_id, Strip(title), Strip(description),
                             FALSE, due_date)
         IN /\ _tasks' = DictSet(_tasks, task)
            /\ _next_id' = _next_id + 1
            /\ storage' = _save_locked(_tasks', storage_path, storage)
            /\ returned' = Returned(task.id, <<task>>)
            /\ UNCHANGED storage_path

\* TaskRepository.get_task: the task, nothing where it returns None
RepositoryGetTask(task_id) ==
    /\ returned' = Returned(task_id, SelectSeq(_tasks, LAMBDA t : t.id = task_id))
    /\ UNCHANGED <<_tasks, _next_id, storage, storage_path>>

\* TaskRepository.update_task; u holds the keyword arguments
RepositoryUpdateTask(task_id, u) ==
    IF \A i \in 1..Len(_tasks) : _tasks[i].id # task_id
    THEN /\ returned' = Raised("not_found", task_id)
         /\ UNCHANGED <<_tasks, _next_id, storage, storage_path>>
    ELSE IF ~IsNone(u.title) /\ Strip(Get(u.title)) = <<>>
    THEN /\ returned' = Raised("invalid_argument", 0)
         /\ UNCHANGED <<_tasks, _next_id, storage, storage_path>>
    ELSE LET k == CHOOSE i \in 1..Len(_tasks) : _tasks[i].id = task_id
             task == update_fields(_tasks[k], u)
         IN /\ _tasks' = DictSet(_tasks, task)
            /\ storage' = _save_locked(_tasks', storage_path, storage)
            /\ returned' = Returned(task_id, <<task>>)
            /\ UNCHANGED <<_next_id, storage_path>>

\* a delete that gives the ids above the remaining ones back to the counter
RepositoryDeleteTaskReclaiming(task_id) ==
    LET removed == \E i \in 1..Len(_tasks) : _tasks[i].id = task_id
    IN /\ _tasks' = DictPop(_tasks, task_id)
       /\ storage' = IF removed THEN _save_locked(_tasks', storage_path, storage)
                     ELSE storage
       /\ returned' = Returned(task_id, <<removed>>)
       /\ _next_id' = IF _tasks' = <<>> THEN 1 ELSE MaxOf(IdsOf(_tasks')) + 1
       /\ UNCHANGED storage_path

\* TaskRepository.delete_task: returns whether a task was removed
RepositoryDeleteTask(task_id) ==
    LET removed == \E i \in 1..Len(_tasks) : _tasks[i].id = task_id
    IN /\ _tasks' = DictPop(_tasks, task_id)
       /\ storage' = IF removed THEN _save_locked(_tasks', storage_path, storage)
                     ELSE storage
       /\ returned' = Returned(task_id, <<removed>>)
       /\ UNCHANGED <<_next_id, storage_path>>

\* TaskRepository.reset
RepositoryReset ==
    /\ _tasks' = <<>>
    /\ _next_id' = 1
    /\ storage' = _save_locked(_tasks', storage_path, storage)
    /\ returned' = Returned(0, <<>>)
    /\ UNCHANGED storage_path

\* TaskRepository(storage_path): a new instance on the same path, as
\* __post_init__ and _load leave it (the file is absent or was written by
\* _save_locked, so that json.load does not raise)
RepositoryOpen ==
    /\ returned' = Returned(0, <<>>)
    /\ UNCHANGED <<storage, storage_path>>
    /\ IF ~storage_path \/ IsNone(storage)
       THEN _tasks' = <<>> /\ _next_id' = 1
       ELSE LET raw_tasks == Get(storage)
                tasks == [i \in 1..Len(raw_tasks) |-> app_from_dict(raw_tasks[i])]
            IN /\ _tasks' = DictOf(tasks)
               /\ _next_id' = IF _tasks' = <<>> THEN 1
                              ELSE MaxOf(IdsOf(_tasks')) + 1

\* a second passes between two calls
Tick ==
    /\ clock' = clock + 1
    /\ UNCHANGED <<fileKind, disk, result>>

\* ------------------------------------------------------------------ inputs
D_2024_01_05 == <<"2", "0", "2", "4", "-", "0", "1", "-", "0", "5">>
D_2023_12_31 == <<"2", "0", "2", "3", "-", "1", "2", "-", "3", "1">>
D_2024_1_5   == <<"2", "0", "2", "4", "-", "1", "-", "5">>
D_2024s12s01 == <<"2", "0", "2", "4", "/", "1", "2", "/", "0", "1">>
D_2023_02_29 == <<"2", "0", "2", "3", "-", "0", "2", "-", "2", "9">>
D_2024_01_b5 == <<"2", "0", "2", "4", "-", "0", "1", "-", " ", "5">>
D_9999_12_31 == <<"9", "9", "9", "9", "-", "1", "2", "-", "3", "1">>

Statuses == {None, Some("pending"), Some("completed")}

\* add_task(title="a") with its defaults
AddDefault == [title |-> <<"a">>, description |-> <<>>, due_date |-> None,
               priority |-> "normal"]
NoUpdate == [title |-> None, description |-> None, due_date |-> None,
             priority |-> None, completed |-> None]

\* the calls of the main specification: every outcome of add and update,
\* few field values
AddCalls ==
    {AddDefault,
     [AddDefault EXCEPT !.due_date = Some(D_2024_1_5)],
     [AddDefault EXCEPT !.due_date = Some(D_2024s12s01)],
     [AddDefault EXCEPT !.priority = "urgent"]}
UpdateCalls ==
    {NoUpdate,
     [NoUpdate EXCEPT !.due_date = Some(<<>>)],
     [NoUpdate EXCEPT !.due_date = Some(D_2024_1_5)],
     [NoUpdate EXCEPT !.due_date = Some(D_2023_02_29)],
     [NoUpdate EXCEPT !.priority = Some("urgent")]}

\* the calls of SpecFields: every field takes several values
FieldAddCalls ==
    {AddDefault,
     [title |-> <<"a">>, description |-> <<"d">>,
      due_date |-> Some(D_2024_1_5), priority |-> "low"],
     [AddDefault EXCEPT !.title = <<>>, !.due_date = Some(<<>>)],
     [AddDefault EXCEPT !.title = <<" ">>],
     [AddDefault EXCEPT !.due_date = Some(D_2024_01_b5)],
     [AddDefault EXCEPT !.due_date = Some(D_2024s12s01)],
     [AddDefault EXCEPT !.due_date = Some(D_2023_02_29)],
     [AddDefault EXCEPT !.priority = "urgent"]}
FieldUpdateCalls ==
    {NoUpdate,
     [NoUpdate EXCEPT !.title = Some(<<"b">>)],
     [NoUpdate EXCEPT !.description = Some(<<>>)],
     [NoUpdate EXCEPT !.due_date = Some(<<>>)],
     [NoUpdate EXCEPT !.due_date = Some(D_2023_12_31)],
     [NoUpdate EXCEPT !.due_date = Some(D_2024s12s01)],
     [NoUpdate EXCEPT !.priority = Some("low")],
     [NoUpdate EXCEPT !.title = Some(<<"b">>), !.priority = Some("urgent")],
     [NoUpdate EXCEPT !.completed = Some(TRUE),
                      !.due_date = Some(D_2023_02_29)]}

\* ----------------------------------------------------------- specification
\* the manager starts on an absent file, the repository without a storage path
InitManager ==
    /\ fileKind = "absent"
    /\ disk = <<>>
    /\ clock = 0
    /\ result = Returned(0, <<>>)
InitRepository ==
    /\ _tasks = <<>>
    /\ _next_id = 1
    /\ storage = None
    /\ storage_path = FALSE
    /\ returned = Returned(0, <<>>)
\* two callers of one TaskManager store, none of them in a call
Callers == {1, 2}
InitCallers ==
    /\ pc = [p \in Callers |-> "idle"]
    /\ loaded = [p \in Callers |-> [args |-> AddDefault, tasks |-> <<>>]]
    /\ outcome = [p \in Callers |-> Returned(0, <<>>)]
Init == InitManager /\ InitRepository /\ InitCallers

\* the bounds of an exploration: store size, ids and clock
Within(maxTasks, maxId, maxClock) ==
    /\ Len(disk') <= maxTasks
    /\ \A i \in 1..Len(disk') : disk'[i].id.num <= maxId
    /\ clock' <= maxClock

TaskIds == 1..MaxId

\* Spec: up to MaxTasks tasks, few field values, all calls within one second
Next ==
    \/ \E a \in AddCalls :
           AddTask(a, 0) /\ Within(MaxTasks, MaxId, 0) /\ UNCHANGED <<rvars, cvars>>
    \/ \E status \in Statuses : ListTasks(status) /\ UNCHANGED <<rvars, cvars>>
    \/ \E task_id \in TaskIds, u \in UpdateCalls :
           UpdateTask(task_id, u) /\ UNCHANGED <<rvars, cvars>>
    \/ \E task_id \in TaskIds, completed \in BOOLEAN :
           CompleteTask(task_id, completed) /\ UNCHANGED <<rvars, cvars>>
    \/ \E task_id \in TaskIds : DeleteTask(task_id) /\ UNCHANGED <<rvars, cvars>>

Spec == Init /\ [][Next]_vars

\* SpecNoDelete: the runs of Spec in which delete_task is never called
NextNoDelete ==
    \/ \E a \in AddCalls :
           AddTask(a, 0) /\ Within(MaxTasks, MaxId, 0) /\ UNCHANGED <<rvars, cvars>>
    \/ \E status \in Statuses : ListTasks(status) /\ UNCHANGED <<rvars, cvars>>
    \/ \E task_id \in TaskIds, u \in UpdateCalls :
           UpdateTask(task_id, u) /\ UNCHANGED <<rvars, cvars>>
    \/ \E task_id \in TaskIds, completed \in BOOLEAN :
           CompleteTask(task_id, completed) /\ UNCHANGED <<rvars, cvars>>

SpecNoDelete == Init /\ [][NextNoDelete]_vars

\* SpecFields: up to MaxFieldTasks tasks, every field varies, all calls
\* within one second
FieldIds == 1..MaxFieldTasks
NextFields ==
    \/ \E a \in FieldAddCalls :
           /\ AddTask(a, 0)
           /\ Within(MaxFieldTasks, MaxFieldTasks, 0)
           /\ UNCHANGED <<rvars, cvars>>
    \/ \E task_id \in FieldIds, u \in FieldUpdateCalls :
           UpdateTask(task_id, u) /\ UNCHANGED <<rvars, cvars>>
    \/ \E task_id \in FieldIds, completed \in BOOLEAN :
           CompleteTask(task_id, completed) /\ UNCHANGED <<rvars, cvars>>
    \/ \E task_id \in FieldIds : DeleteTask(task_id) /\ UNCHANGED <<rvars, cvars>>

SpecFields == Init /\ [][NextFields]_vars

\* SpecList: list_tasks of the manager and of the repository on every
\* collection of up to MaxListed tasks, stored in the order of their ids
ListedDates == {None, Some(<<2024, 1, 5>>)}
Listed == [id : 1..MaxListed, completed : BOOLEAN, due_date : ListedDates]
Collections ==
    {c \in UNION {[1..n -> Listed] : n \in 0..MaxListed} :
        \A i \in 1..(Len(c) - 1) : c[i].id < c[i + 1].id}
DateText(d) == IF IsNone(d) THEN None
               ELSE Some(IsoFormat(Get(d)[1], Get(d)[2], Get(d)[3]))
ManagerTask(x) ==
    [Task(x.id, <<"a">>, <<>>, DateText(x.due_date), "normal", 0, 0)
        EXCEPT !.completed = x.completed]
RepositoryTask(x) == AppTask(x.id, <<"a">>, <<>>, x.completed, x.due_date)
InitList ==
    \E c \in Collections :
        /\ fileKind = IF c = <<>> THEN "absent" ELSE "valid"
        /\ disk = save_tasks([i \in 1..Len(c) |-> ManagerTask(c[i])])
        /\ clock = 0
        /\ result = Returned(0, <<>>)
        /\ _tasks = [i \in 1..Len(c) |-> RepositoryTask(c[i])]
        /\ _next_id = IF c = <<>> THEN 1 ELSE c[Len(c)].id + 1
        /\ storage = None
        /\ storage_path = FALSE
        /\ returned = Returned(0, <<>>)
        /\ InitCallers
Filters == {None, Some(TRUE), Some(FALSE)}
NextList ==
    \/ \E status \in Statuses : ListTasks(status) /\ UNCHANGED <<rvars, cvars>>
    \/ \E completed \in Filters :
           RepositoryListTasks(completed) /\ UNCHANGED <<mvars, cvars>>

SpecList == InitList /\ [][NextList]_vars

\* SpecRepository: one TaskRepository with or without a storage path, holding
\* up to MaxRepoTasks tasks with ids up to MaxRepoId; the instance may be
\* replaced by a new one on the same path
Date_2024_01_05 == <<2024, 1, 5>>
Date_2023_12_31 == <<2023, 12, 31>>
CreateCalls ==
    {[title |-> <<"a">>, description |-> <<>>, due_date |-> None],
     [title |-> <<" ", "a">>, description |-> <<"d", " ">>,
      due_date |-> Some(Date_2024_01_05)],
     [title |-> <<" ">>, description |-> <<>>, due_date |-> None]}
NoRepositoryUpdate == [title |-> None, description |-> None,
                       due_date |-> _UNSET, completed |-> None]
RepositoryUpdateCalls ==
    {NoRepositoryUpdate,
     [NoRepositoryUpdate EXCEPT !.due_date = Given(None)],
     [NoRepositoryUpdate EXCEPT !.due_date = Given(Some(Date_2023_12_31))],
     [NoRepositoryUpdate EXCEPT !.title = Some(<<"b">>),
                                !.completed = Some(TRUE)],
     [NoRepositoryUpdate EXCEPT !.title = Some(<<" ">>),
                                !.due_date = Given(None)]}
RepositoryIds == 1..MaxRepoId
InitWithOrWithoutPath ==
    /\ InitManager
    /\ InitCallers
    /\ _tasks = <<>>
    /\ _next_id = 1
    /\ storage = None
    /\ storage_path \in BOOLEAN
    /\ returned = Returned(0, <<>>)
WithinRepository ==
    /\ Len(_tasks') <= MaxRepoTasks
    /\ _next_id' <= MaxRepoId + 1
NextSession ==
    \/ \E c \in CreateCalls :
           /\ RepositoryCreateTask(c.title, c.description, c.due_date)
           /\ WithinRepository
           /\ UNCHANGED <<mvars, cvars>>
    \/ \E task_id \in RepositoryIds :
           RepositoryGetTask(task_id) /\ UNCHANGED <<mvars, cvars>>
    \/ \E task_id \in RepositoryIds, u \in RepositoryUpdateCalls :
           RepositoryUpdateTask(task_id, u) /\ UNCHANGED <<mvars, cvars>>
    \/ \E task_id \in RepositoryIds :
           RepositoryDeleteTask(task_id) /\ UNCHANGED <<mvars, cvars>>
NextRepository ==
    \/ NextSession
    \/ RepositoryReset /\ UNCHANGED <<mvars, cvars>>
    \/ RepositoryOpen /\ UNCHANGED <<mvars, cvars>>

SpecRepository == InitWithOrWithoutPath /\ [][NextRepository]_vars

\* SpecSession: the runs of one TaskRepository instance without reset()
SpecSession == InitWithOrWithoutPath /\ [][NextSession]_vars

\* SpecClock: up to MaxFieldTasks tasks; the clock advances between the calls
\* and between the two clock readings of the Task constructor, up to MaxClock
NextClock ==
    \/ \E a \in AddCalls, tick \in {0, 1} :
           /\ AddTask(a, tick)
           /\ Within(MaxFieldTasks, MaxFieldTasks, MaxClock)
           /\ UNCHANGED <<rvars, cvars>>
    \/ \E task_id \in FieldIds, u \in UpdateCalls :
           UpdateTask(task_id, u) /\ UNCHANGED <<rvars, cvars>>
    \/ \E task_id \in FieldIds, completed \in BOOLEAN :
           CompleteTask(task_id, completed) /\ UNCHANGED <<rvars, cvars>>
    \/ \E task_id \in FieldIds : DeleteTask(task_id) /\ UNCHANGED <<rvars, cvars>>
    \/ Tick /\ clock' <= MaxClock /\ UNCHANGED <<rvars, cvars>>

SpecClock == Init /\ [][NextClock]_vars

\* SpecAnyFile: the runs of Spec, and the same calls on a file whose content
\* is not well-formed JSON (the content itself is not modelled: disk is <<>>)
InitAnyFile ==
    /\ fileKind \in {"absent", "malformed"}
    /\ disk = <<>>
    /\ clock = 0
    /\ result = Returned(0, <<>>)
    /\ InitRepository
    /\ InitCallers

SpecAnyFile == InitAnyFile /\ [][Next]_vars

\* SpecSort: list_tasks of the manager on every file of up to MaxSorted tasks
\* with distinct ids, in every storage order
SortedDates == {None, Some(D_2024_01_05), Some(D_9999_12_31)}
Sortable == [id : 1..MaxSorted, completed : BOOLEAN, due_date : SortedDates]
SortableTask(x) ==
    [Task(x.id, <<"a">>, <<>>, x.due_date, "normal", 0, 0)
        EXCEPT !.completed = x.completed]
Files ==
    {c \in UNION {[1..n -> Sortable] : n \in 0..MaxSorted} :
        \A i, j \in 1..Len(c) : i # j => c[i].id # c[j].id}
InitSort ==
    /\ \E c \in Files :
           /\ fileKind = IF c = <<>> THEN "absent" ELSE "valid"
           /\ disk = save_tasks([i \in 1..Len(c) |-> SortableTask(c[i])])
    /\ clock = 0
    /\ result = Returned(0, <<>>)
    /\ InitRepository
    /\ InitCallers
NextSort == \E status \in Statuses : ListTasks(status) /\ UNCHANGED <<rvars, cvars>>

SpecSort == InitSort /\ [][NextSort]_vars

\* SpecConcurrent: two callers run add_task against one store, their loads
\* and saves in any order; caller 1 adds tasks titled a, caller 2 titled b
CallerCalls(p) ==
    LET call == [AddDefault EXCEPT !.title = IF p = 1 THEN <<"a">> ELSE <<"b">>]
    IN {call, [call EXCEPT !.priority = "urgent"]}
NextConcurrent ==
    \/ \E p \in Callers : \E a \in CallerCalls(p) :
           AddLoad(p, a) /\ UNCHANGED rvars
    \/ \E p \in Callers :
           AddSave(p) /\ Within(MaxTasks, MaxId, 0) /\ UNCHANGED rvars

SpecConcurrent == Init /\ [][NextConcurrent]_vars

\* SpecStorage: a collection of up to MaxSaved tasks with distinct ids, in
\* any order, is saved to an absent file and loaded; what was loaded is saved
\* again
SavedTasks ==
    UNION {{Task(id, <<"a">>, <<>>, None, "normal", 0, 0),
            [Task(id, <<"b">>, <<"d">>, Some(D_2024_01_05), "high", 0, 1)
                EXCEPT !.completed = TRUE]} : id \in 1..MaxSaved}
SavedCollections ==
    {c \in UNION {[1..n -> SavedTasks] : n \in 0..MaxSaved} :
        \A i, j \in 1..Len(c) : i # j => c[i].id # c[j].id}
NextStorage ==
    \/ /\ fileKind = "absent"
       /\ \E tasks \in SavedCollections : StorageSaveTasks(tasks)
       /\ UNCHANGED <<rvars, cvars>>
    \/ StorageLoadTasks /\ UNCHANGED <<rvars, cvars>>
    \/ /\ result.kind = "ok" /\ result.value # <<>>
       /\ StorageSaveTasks(result.value)
       /\ UNCHANGED <<rvars, cvars>>

SpecStorage == Init /\ [][NextStorage]_vars

\* ------------------------------------------------------- state functions
\* the durable collection, as a following load returns it
Stored == load_tasks
IdSeq(tasks) == [i \in 1..Len(tasks) |-> tasks[i].id]
StoredIds == IdSeq(Stored)
UniqueIds(tasks) ==
    \A i, j \in 1..Len(tasks) : i # j => tasks[i].id # tasks[j].id
HasId(tasks, id) == \E i \in 1..Len(tasks) : tasks[i].id = id
TaskOf(tasks, id) == tasks[CHOOSE i \in 1..Len(tasks) : tasks[i].id = id]

CompleteCalls == {[NoUpdate EXCEPT !.completed = Some(c)] : c \in BOOLEAN}
DueEmpty == [NoUpdate EXCEPT !.due_date = Some(<<>>)]

\* ------------------------------------------------------------------ claims
\* C1: for every stored task whose due date is set, update_task(id,
\* due_date="") succeeds and leaves the task stored with due_date None.
C1_EmptyStringClearsDueDate ==
    [][\A id \in TaskIds :
          (/\ HasId(Stored, id)
           /\ ~IsNone(TaskOf(Stored, id).due_date)
           /\ UpdateTask(id, DueEmpty))
          => (result'.kind = "ok" /\ IsNone(TaskOf(Stored', id).due_date))]_vars

\* C2: no two tasks of the durable collection have the same id, and no
\* update_task or complete_task call changes the id of a stored task.
C2_IdsUniqueAndImmutable ==
    /\ [](UniqueIds(Stored))
    /\ [][\/ StoredIds' = StoredIds
          \/ \A id \in TaskIds, u \in UpdateCalls \cup CompleteCalls :
                 ~UpdateTask(id, u)]_vars

\* id 1 was deleted, a later add was given 3, and task 2 has been completed
C2_Witness ==
    /\ StoredIds = <<2, 3>>
    /\ Stored[1].completed
    /\ result = Returned(2, <<Stored[1]>>)

\* C3: N successful add_task calls in sequence on an empty store, with no
\* delete in between, return 1, 2, ..., N, and the store holds those tasks in
\* that order.  (Checked where delete_task is never called: there the number
\* of stored tasks changes only by a successful add.)
Count(n) == [i \in 1..n |-> i]
AddOk(a) == AddTask(a, 0) /\ result'.kind = "ok"
C3_SequentialIds ==
    /\ [](StoredIds = Count(Len(Stored)))
    /\ [][\A a \in AddCalls :
             AddOk(a) => /\ result'.id = Len(Stored) + 1
                         /\ Stored' = Append(Stored, result'.value[1])
                         /\ result'.value[1].id = result'.id]_vars
    /\ [][Len(Stored') # Len(Stored) => \E a \in AddCalls : AddOk(a)]_vars

\* the third add in a row has returned id 3
C3_Witness ==
    /\ StoredIds = <<1, 2, 3>>
    /\ result = Returned(3, <<Stored[3]>>)

\* C4 as stated: every successful add assigns 1 + the largest stored id (1 on
\* an empty store); the id of a deleted task is reassigned by an add exactly
\* when it is greater than every id stored at that add; a deleted id smaller
\* than some stored id is not reassigned.
MaxStored == IF Stored = <<>> THEN 0 ELSE MaxOf(IdsOf(Stored))
JustDeleted(d) == d >= 1 /\ result = Returned(d, <<>>)
C4_ReassignedWhenGreater ==
    [][\A a \in AddCalls :
          AddOk(a) =>
              /\ result'.id = 1 + MaxStored
              /\ \A d \in TaskIds :
                     JustDeleted(d) =>
                         (result'.id = d <=> \A x \in IdsOf(Stored) : x < d)
              /\ \A d \in TaskIds \ IdsOf(Stored) :
                     (\E x \in IdsOf(Stored) : d < x) => result'.id # d]_vars

\* C4 as amended: the id of a deleted task is reassigned by an add exactly
\* when it is 1 + the largest id stored at that add (1 on an empty store).
C4_ReassignedWhenNext ==
    [][\A a \in AddCalls :
          AddOk(a) =>
              /\ result'.id = 1 + MaxStored
              /\ \A d \in TaskIds :
                     JustDeleted(d) => (result'.id = d <=> d = 1 + MaxStored)
              /\ \A d \in TaskIds \ IdsOf(Stored) :
                     (\E x \in IdsOf(Stored) : d < x) => result'.id # d]_vars

\* id 1 was deleted while 2 was stored, and the next add was given 3
C4_Witness ==
    /\ StoredIds = <<2, 3>>
    /\ result = Returned(3, <<Stored[2]>>)

\* the vocabulary of the claims about validation
ClaimPriorities == {"low", "normal", "high"}
CalendarDate(y, m, d) == y >= 1 /\ m \in 1..12 /\ d >= 1 /\ d <= DaysInMonth(y, m)
AllDigits(f) == \A i \in 1..Len(f) : f[i] \in DigitChars
\* text of the exact form YYYY-MM-DD that names a calendar date
IsYYYYMMDD(s) ==
    /\ Len(s) = 10 /\ s[5] = "-" /\ s[8] = "-"
    /\ AllDigits(SubSeq(s, 1, 4)) /\ AllDigits(SubSeq(s, 6, 7))
    /\ AllDigits(SubSeq(s, 9, 10))
    /\ CalendarDate(DecimalValue(SubSeq(s, 1, 4)), DecimalValue(SubSeq(s, 6, 7)),
                    DecimalValue(SubSeq(s, 9, 10)))
\* text year-month-day that names a calendar date: a year of four digits, a
\* month and a day of one or two digits (the day also a blank and a digit)
IsYearMonthDay(s) ==
    LET f == SplitDash(s) IN
    /\ Len(f) = 3
    /\ Len(f[1]) = 4 /\ AllDigits(f[1])
    /\ Len(f[2]) \in 1..2 /\ AllDigits(f[2])
    /\ \/ Len(f[3]) \in 1..2 /\ AllDigits(f[3])
       \/ Len(f[3]) = 2 /\ f[3][1] = " " /\ f[3][2] \in DigitChars
    /\ CalendarDate(DecimalValue(f[1]), DecimalValue(f[2]), DecimalValue(f[3]))
Supplied(o) == ~IsNone(o) /\ Get(o) # <<>>
Rejected == result' = Raised("invalid_argument", 0) /\ UNCHANGED <<fileKind, disk>>

C6_BlankTitleRejected ==
    [][\A a \in FieldAddCalls :
          (Strip(a.title) = <<>> /\ AddTask(a, 0)) => Rejected]_vars

\* C7: a successful update_task or complete_task changes only the supplied
\* fields and updated_at of the task with the id; its id, created_at and
\* omitted fields, every other task, the number of tasks and their order stay.
KeepsOmitted(old, new, u) ==
    /\ new.id = old.id
    /\ new.created_at = old.created_at
    /\ IsNone(u.title) => new.title = old.title
    /\ IsNone(u.description) => new.description = old.description
    /\ IsNone(u.due_date) => new.due_date = old.due_date
    /\ IsNone(u.priority) => new.priority = old.priority
    /\ IsNone(u.completed) => new.completed = old.completed
Frame(old, new, id, u) ==
    /\ Len(new) = Len(old)
    /\ \A i \in 1..Len(old) :
           IF old[i].id = id THEN KeepsOmitted(old[i], new[i], u)
           ELSE new[i] = old[i]
NotFound(id) == result' = Raised("not_found", id) /\ UNCHANGED <<fileKind, disk>>
C8_NotFound ==
    [][\A id \in TaskIds :
          /\ ~HasId(Stored, id) =>
                 \/ NotFound(id)
                 \/ \A u \in UpdateCalls \cup CompleteCalls : ~UpdateTask(id, u)
          /\ ((JustDeleted(id) \/ ~HasId(Stored, id)) /\ DeleteTask(id))
                 => NotFound(id)]_vars

\* id 2 was deleted and asked for again while two other tasks are stored
C8_Witness ==
    /\ StoredIds = <<1, 3>>
    /\ result = Raised("not_found", 2)

\* C9: a successful delete_task(id) leaves no task with that id and every
\* other task unchanged and in the same order; a following list_tasks()
\* returns the previous tasks without the deleted one.
Without(tasks, id) == SelectSeq(tasks, LAMBDA t : t.id # id)
C9_DeleteRemovesOne ==
    [][\A id \in TaskIds :
          (HasId(Stored, id) /\ DeleteTask(id)) =>
              /\ result' = Returned(id, <<>>)
              /\ ~HasId(Stored', id)
              /\ Stored' = Without(Stored, id)
              /\ list_tasks(Stored', None) = Without(list_tasks(Stored, None), id)
      ]_vars

\* the second of three tasks was deleted
C9_Witness ==
    /\ StoredIds = <<1, 3>>
    /\ result = Returned(2, <<>>)

\* C10: list_tasks(status="pending") returns exactly the stored tasks that
\* are not completed, status="completed" exactly the completed ones (the two
\* results are disjoint and cover the collection), status=None every task,
\* none of them twice; the same for TaskRepository.list_tasks(completed=...).
Elems(seq) == {seq[i] : i \in 1..Len(seq)}
ExactlyThe(list, wanted) ==
    Elems(list) = wanted /\ Len(list) = Cardinality(wanted)
WantedOf(tasks, filter) ==
    {t \in Elems(tasks) : IsNone(filter) \/ t.completed = Get(filter)}
FilterOf(status) ==
    IF status = Some("pending") THEN Some(FALSE)
    ELSE IF status = Some("completed") THEN Some(TRUE) ELSE None
C10_FilterCorrectness ==
    /\ [][/\ \A status \in Statuses :
                 ListTasks(status) =>
                     ExactlyThe(result'.value, WantedOf(Stored, FilterOf(status)))
          /\ \A completed \in Filters :
                 RepositoryListTasks(completed) =>
                     ExactlyThe(returned'.value, WantedOf(_tasks, completed))
         ]_vars
    /\ [](LET pending == Elems(list_tasks(Stored, Some("pending")))
              completed == Elems(list_tasks(Stored, Some("completed")))
          IN /\ pending \cap completed = {}
             /\ pending \cup completed = Elems(Stored)
             /\ \A t \in pending : ~t.completed
             /\ \A t \in completed : t.completed)

\* of three tasks the first is completed: the manager has listed the pending
\* ones, the repository the completed one
C10_Witness ==
    /\ StoredIds = <<1, 2, 3>>
    /\ Stored[1].completed /\ ~Stored[2].completed /\ ~Stored[3].completed
    /\ IdSeq(result.value) = <<2, 3>>
    /\ IdSeq(returned.value) = <<1>>

\* C11: in every result of list_tasks, for a before b: a is incomplete or b is
\* complete; with equal completion a's due date is not later than b's, an
\* absent due date being later than every present one; with equal completion
\* and due date a.id < b.id.  The result is the same for every storage order
\* of the collection.
DateOf(text) == LET p == Strptime(text) IN <<p.y, p.m, p.d>>
DateLater(x, y) ==
    \/ x[1] > y[1]
    \/ x[1] = y[1] /\ x[2] > y[2]
    \/ x[1] = y[1] /\ x[2] = y[2] /\ x[3] > y[3]
\* a's due date is later than b's, an absent one later than every present one
DueLater(a, b) ==
    IF IsNone(a.due_date) THEN ~IsNone(b.due_date)
    ELSE IF IsNone(b.due_date) THEN FALSE
    ELSE DateLater(DateOf(Get(a.due_date)), DateOf(Get(b.due_date)))
MayPrecede(a, b) ==
    /\ ~a.completed \/ b.completed
    /\ a.completed = b.completed => ~DueLater(a, b)
    /\ (a.completed = b.completed /\ a.due_date = b.due_date) => a.id < b.id
InOrder(list) ==
    \A i, j \in 1..Len(list) : i < j => MayPrecede(list[i], list[j])
RECURSIVE ById(_)
ById(tasks) ==
    IF tasks = <<>> THEN <<>>
    ELSE LET k == CHOOSE i \in 1..Len(tasks) :
                      \A j \in 1..Len(tasks) : tasks[i].id <= tasks[j].id
         IN <<tasks[k]>> \o ById(SubSeq(tasks, 1, k - 1)
                                    \o SubSeq(tasks, k + 1, Len(tasks)))
C11_SortOrder ==
    [][\A status \in Statuses :
          ListTasks(status) =>
              /\ InOrder(result'.value)
              /\ result'.value = list_tasks(ById(Stored), status)]_vars

\* C12: every task of the durable collection has a priority of low, normal or
\* high and a due date that is absent or a calendar date written YYYY-MM-DD.
C12_StoredFieldsValid ==
    \A i \in 1..Len(Stored) :
        /\ Stored[i].priority \in ClaimPriorities
        /\ \/ IsNone(Stored[i].due_date)
           \/ IsYYYYMMDD(Get(Stored[i].due_date))

\* the stored task was given its priority and its due date by update_task,
\* and a later call was rejected
C12_Witness ==
    /\ Len(Stored) = 1
    /\ Stored[1].priority = "low"
    /\ Stored[1].due_date = Some(D_2023_12_31)
    /\ Stored[1].description = <<>>
    /\ result = Raised("invalid_argument", 0)

\* C13: when add_task calls of two callers overlap, the last save wins: a
\* call with valid arguments returns its task without an error whatever was
\* saved since its load, the store then holds the list that call had loaded
\* and its new task, and the tasks saved by the other caller since that load
\* are no longer stored.
ValidCall(a) == a.priority \in ClaimPriorities /\ ~Supplied(a.due_date)
C13_LastSaveWins ==
    [][\A p \in Callers :
          (AddSave(p) /\ ValidCall(loaded[p].args)) =>
              /\ outcome'[p].kind = "ok"
              /\ Stored' = Append(loaded[p].tasks, outcome'[p].value[1])
              /\ \A i \in 1..Len(Stored) :
                     Stored[i] \notin Elems(loaded[p].tasks)
                         => Stored[i] \notin Elems(Stored')]_vars

\* both callers loaded the empty store and both were returned a task with id
\* 1; caller 2 saved last and the task of caller 1 is not stored
C13_Witness ==
    /\ pc = [p \in Callers |-> "idle"]
    /\ outcome[1].kind = "ok" /\ outcome[1].value # <<>>
    /\ outcome[1].value[1].id = 1 /\ outcome[1].value[1].title = <<"a">>
    /\ outcome[2].kind = "ok" /\ outcome[2].value # <<>>
    /\ outcome[2].value[1].id = 1 /\ outcome[2].value[1].title = <<"b">>
    /\ Stored = outcome[2].value

\* C14: save_tasks followed by load_tasks returns the saved tasks, the same
\* number in the same order and every field of every task identical (an absent
\* due date and an empty description included); saving what was loaded leaves
\* the content of the file as it is.
SameFields(a, b) ==
    /\ a.id = b.id /\ a.title = b.title /\ a.description = b.description
    /\ a.due_date = b.due_date /\ a.priority = b.priority
    /\ a.completed = b.completed
    /\ a.created_at = b.created_at /\ a.updated_at = b.updated_at
C14_RoundTrip ==
    /\ [][\A tasks \in SavedCollections :
             StorageSaveTasks(tasks) =>
                 /\ Len(Stored') = Len(tasks)
                 /\ \A i \in 1..Len(tasks) : SameFields(Stored'[i], tasks[i])]_vars
    /\ [][StorageLoadTasks =>
             (result'.kind = "ok" /\ save_tasks(result'.value) = disk)]_vars

\* the file holds task 2 and then task 1, one of them without a due date and
\* with an empty description, and they have been loaded
C14_Witness ==
    /\ StoredIds = <<2, 1>>
    /\ IsNone(Stored[1].due_date) /\ Stored[1].description = <<>>
    /\ Stored[2].completed /\ Stored[2].updated_at = 1
    /\ result = Returned(0, Stored)

\* C15: with no file, load returns the empty list without an error, list_tasks
\* returns nothing and add_task assigns id 1; with a file that is not
\* well-formed, add, list, update, complete and delete raise the decode error
\* and leave the file as it is.
DecodeFailure ==
    result' = Raised("decode_error", 0) /\ UNCHANGED <<fileKind, disk>>
C15_AbsentOrMalformed ==
    /\ [](fileKind = "absent" => Stored = <<>>)
    /\ [][fileKind = "absent" =>
             /\ result'.kind # "decode_error"
             /\ \A status \in Statuses :
                    ListTasks(status) => result' = Returned(0, <<>>)
             /\ \A a \in AddCalls : AddOk(a) => result'.id = 1]_vars
    /\ [][fileKind = "malformed" =>
             /\ \A a \in AddCalls : AddTask(a, 0) => DecodeFailure
             /\ \A status \in Statuses : ListTasks(status) => DecodeFailure
             /\ \A id \in TaskIds, u \in UpdateCalls \cup CompleteCalls :
                    UpdateTask(id, u) => DecodeFailure
             /\ \A id \in TaskIds : DeleteTask(id) => DecodeFailure]_vars
    /\ [][fileKind = "malformed" => fileKind' = "malformed"]_vars

\* a call on the malformed file has failed
C15_Witness ==
    /\ fileKind = "malformed"
    /\ result = Raised("decode_error", 0)

\* C16 as stated: a successful update_task or complete_task leaves updated_at
\* of the task strictly greater than before and created_at as it was.
UpdatedOk(id) ==
    \E u \in UpdateCalls \cup CompleteCalls :
        UpdateTask(id, u) /\ result'.kind = "ok"
C16_UpdatedAtStrictlyGreater ==
    [][\A id \in FieldIds :
          \/ ~HasId(Stored, id)
          \/ /\ HasId(Stored', id)
             /\ TaskOf(Stored', id).updated_at > TaskOf(Stored, id).updated_at
             /\ TaskOf(Stored', id).created_at = TaskOf(Stored, id).created_at
          \/ ~UpdatedOk(id)]_vars

\* C16 as amended: a successful update_task or complete_task sets updated_at
\* of the task to the reading of the clock at the call; that is never less
\* than before, and greater exactly when the clock has advanced since the
\* former value was written; created_at stays as it was.
C16_UpdatedAtIsClockReading ==
    [][\A id \in FieldIds :
          \/ ~HasId(Stored, id)
          \/ /\ HasId(Stored', id)
             /\ TaskOf(Stored', id).updated_at = current_timestamp(clock)
             /\ TaskOf(Stored', id).updated_at >= TaskOf(Stored, id).updated_at
             /\ TaskOf(Stored', id).updated_at > TaskOf(Stored, id).updated_at
                    <=> clock > TaskOf(Stored, id).updated_at
             /\ TaskOf(Stored', id).created_at = TaskOf(Stored, id).created_at
          \/ ~UpdatedOk(id)]_vars

\* the task was created at 0 and completed at 1
C16_Witness ==
    /\ Len(Stored) = 1
    /\ Stored[1].created_at = 0 /\ Stored[1].updated_at = 1
    /\ Stored[1].completed
    /\ clock = 1
    /\ result = Returned(1, <<Stored[1]>>)

\* C17: a successful TaskRepository.update_task(id, ...) with due_date=None
\* leaves get_task(id).due_date None, with due_date=d leaves it d, and with
\* due_date not supplied leaves it as it was, whatever it was before.
DueDateAfter(before, argument) ==
    IF argument = _UNSET THEN before ELSE Get(argument)
C17_ThreeStateDueDate ==
    [][\/ returned'.kind # "ok"
       \/ \A id \in RepositoryIds, u \in RepositoryUpdateCalls :
          \/ returned'.id # id
          \/ /\ HasId(_tasks, id) /\ HasId(_tasks', id)
             /\ TaskOf(_tasks', id).due_date
                    = DueDateAfter(TaskOf(_tasks, id).due_date, u.due_date)
             /\ u.due_date = Given(None) => IsNone(TaskOf(_tasks', id).due_date)
          \/ ~RepositoryUpdateTask(id, u)]_vars

\* the task that was created with a due date has lost it by
\* update_task(1, due_date=None)
C17_Witness ==
    /\ Len(_tasks) = 1
    /\ _tasks[1].id = 1 /\ _tasks[1].description = <<"d">>
    /\ IsNone(_tasks[1].due_date)
    /\ returned = Returned(1, <<_tasks[1]>>)

\* C18: on a repository with a storage path, the file holds exactly the tasks
\* of the repository (ids and fields) after every successful create_task,
\* update_task, delete_task that returned True and reset; a new TaskRepository
\* on the same path holds the same tasks and assigns max(stored ids) + 1 next
\* (1 if there is none).  (The file and the repository hold the same tasks in
\* every state; after a successful mutation the file exists.)
FileTasks ==
    IF IsNone(storage) THEN <<>>
    ELSE [i \in 1..Len(Get(storage)) |-> app_from_dict(Get(storage)[i])]
SameTasks(a, b) == Elems(a) = Elems(b) /\ Len(a) = Len(b)
MutatedOk ==
    \/ \E c \in CreateCalls :
           /\ RepositoryCreateTask(c.title, c.description, c.due_date)
           /\ returned'.kind = "ok"
    \/ \E id \in RepositoryIds, u \in RepositoryUpdateCalls :
           RepositoryUpdateTask(id, u) /\ returned'.kind = "ok"
    \/ \E id \in RepositoryIds :
           RepositoryDeleteTask(id) /\ returned'.value = <<TRUE>>
    \/ RepositoryReset
C18_PersistenceBetweenSessions ==
    /\ [](storage_path =>
             /\ UniqueIds(_tasks)
             /\ LET file == FileTasks IN SameTasks(file, _tasks))
    /\ [][~storage_path \/ ~IsNone(storage') \/ ~MutatedOk]_vars
    /\ [][(storage_path /\ RepositoryOpen) =>
             /\ SameTasks(_tasks', _tasks)
             /\ _next_id' = IF _tasks = <<>> THEN 1
                            ELSE MaxOf(IdsOf(_tasks)) + 1]_vars

\* tasks 1 and 2 were created, task 1 updated and task 2 deleted; a new
\* repository on the same path holds task 1 and will assign id 2
C18_Witness ==
    /\ storage_path
    /\ IdSeq(_tasks) = <<1>>
    /\ _tasks[1].completed /\ _tasks[1].title = <<"b">>
    /\ _tasks[1].due_date = Some(Date_2024_01_05)
    /\ IdSeq(FileTasks) = <<1>>
    /\ _next_id = 2
    /\ returned = Returned(0, <<>>)

\* C19: add_task with a priority outside {low, normal, high} or a due_date
\* that is no date raises the invalid-argument error whatever the file is:
\* absent, well-formed or malformed.
C19_ValidateBeforeLoad ==
    [][\A a \in AddCalls :
          (/\ \/ a.priority \notin ClaimPriorities
              \/ Supplied(a.due_date) /\ ~IsYearMonthDay(Get(a.due_date))
           /\ AddTask(a, 0))
          => result' = Raised("invalid_argument", 0)]_vars

\* C20: on one TaskRepository instance without reset(), the ids returned by
\* successive create_task calls are strictly increasing whatever update_task
\* and delete_task calls come in between: no id is assigned twice, not even
\* after the task with the highest id was deleted.  (Every id assigned so far
\* is below _next_id, which never decreases; a create returns an id that is
\* not below it and raises it above that id.)
C20_NoIdReuse ==
    /\ [](\A i \in 1..Len(_tasks) : _tasks[i].id < _next_id)
    /\ [][_next_id' >= _next_id]_vars
    /\ [][\A c \in CreateCalls :
             (/\ RepositoryCreateTask(c.title, c.description, c.due_date)
              /\ returned'.kind = "ok")
             => /\ returned'.id >= _next_id
                /\ returned'.id < _next_id'
                /\ returned'.value[1].id = returned'.id
                /\ HasId(_tasks', returned'.id)]_vars

\* tasks 1 and 2 were created, task 2, the highest, was deleted, and the next
\* create_task was given id 3
C20_Witness ==
    /\ IdSeq(_tasks) = <<1, 3>>
    /\ _next_id = 4
    /\ returned = Returned(3, <<_tasks[2]>>)
    /\ ~_tasks[2].completed

\* C21: every task returned and stored by a successful add_task has
\* completed = FALSE and created_at equal to updated_at, whenever the clock
\* advances relative to the call, the moment between the two clock readings
\* of the Task constructor included.
C21_CreationDefaults ==
    [][\/ result'.kind # "ok"
       \/ \A a \in AddCalls, tick \in {0, 1} :
             AddTask(a, tick)
             => LET new_task == result'.value[1]
                IN /\ ~new_task.completed
                   /\ new_task.created_at = new_task.updated_at
                   /\ Stored'[Len(Stored')] = new_task]_vars

====
